---- MODULE Spec2Model ----
(***************************************************************************)
(* Model of generate_m3u_youtube.py: the pre-fetch deduplication of the    *)
(* input lines, the thread pool of check_url_entry_buffered workers with   *)
(* their yt-dlp calls under run_yt_dlp_cmd_with_retries, the fan-in into   *)
(* `buffered`, and the output phase of main (expiry aggregation, header,   *)
(* special entry, post-fetch deduplication and durable writes).            *)
(*                                                                         *)
(* Strings are sequences of tokens (each token a short piece of text), so  *)
(* that strip, lower, startswith, substring search and the expire/<digits> *)
(* regular expression are computed on the text and not assumed.            *)
(* Python's None is the one-token sequence None; an absent integer is      *)
(* NoneEpoch.                                                              *)
(***************************************************************************)
EXTENDS Integers, Sequences, FiniteSets, TLC

VARIABLES
    file_lines,        \* the lines of the input file, as read (untrimmed)
    cfg,               \* run configuration: workers, retries, no_metadata, fallback_watch
    pc,                \* position of the main thread
    raw_lines,         \* main: raw_lines (stripped, non-blank)
    di,                \* main: index of the pre-fetch loop over raw_lines
    unique_inputs,     \* main: unique_inputs
    seen_input_lines,  \* main: seen_input_lines
    skipped,           \* positions in raw_lines reported as duplicate input lines
    w,                 \* one worker state per submitted future
    done_q,            \* futures in their order of completion, not yet collected
    buffered,          \* main: buffered
    expire_max,        \* main: expire_max
    special_url,       \* main: special_url
    out_buf,           \* output file: lines written but still in the process' buffer
    out_file,          \* output file: lines handed to the operating system
    out_synced,        \* output file: number of lines known to be on disk (fsync)
    bi,                \* main: index of the post-fetch loop over buffered
    added_keys,        \* main: added_keys
    added_urls,        \* main: added_urls
    emitted,           \* positions in buffered whose entry was written
    counting,          \* whether each worker's resolver calls are counted and the
                       \* way its last call ended is kept
    now                \* the clock read at lines 365/368, in seconds since the epoch

vars == <<file_lines, cfg, pc, raw_lines, di, unique_inputs, seen_input_lines,
          skipped, w, done_q, buffered, expire_max, special_url, out_buf,
          out_file, out_synced, bi, added_keys, added_urls, emitted, counting, now>>

\* ---------------------------------------------------------------- bounds
MaxLines == 4      \* longest input file of the pre-fetch specification
MaxRetries == 2    \* largest configured retry count
MaxEpoch == 2      \* largest expiry epoch a resolved URL carries
MaxHours == 2      \* most hours between the clock and an expiry epoch

\* ---------------------------------------------------------------- text
None == <<"<None>">>
NoneEpoch == -1

\* a JSON value that is true in a condition and is not a string (a number, a list)
NotAString == <<"<not a string>">>

Truthy(s) == s # None /\ s # <<>>

\* a or b, on optional strings
OrElse(a, b) == IF Truthy(a) THEN a ELSE b

IsSpace(t) == t = " "

RECURSIVE LStrip(_)
LStrip(s) == IF s # <<>> /\ IsSpace(Head(s)) THEN LStrip(Tail(s)) ELSE s

RECURSIVE RStrip(_)
RStrip(s) ==
    IF s # <<>> /\ IsSpace(s[Len(s)]) THEN RStrip(SubSeq(s, 1, Len(s) - 1)) ELSE s

\* str.strip()
Strip(s) == RStrip(LStrip(s))

LowerTok(t) ==
    CASE t = "X" -> "x"
      [] t = "Y" -> "y"
      [] t = "Expire/" -> "expire/"
      [] t = "M3U8" -> "m3u8"
      [] OTHER -> t

\* str.lower()
Lower(s) == [i \in 1..Len(s) |-> LowerTok(s[i])]

\* pat in s
IsInfix(pat, s) ==
    \E i \in 0..(Len(s) - Len(pat)) : SubSeq(s, i + 1, i + Len(pat)) = pat

\* s.startswith("http://") or s.startswith("https://")
StartsWithHttp(s) == s # <<>> /\ s[1] \in {"http://", "https://"}

WatchPrefix == <<"https://", "www.youtube.com/watch?v=">>

normalize_always_template(ln) ==
    IF Strip(ln) = <<>> THEN <<>> ELSE WatchPrefix \o Strip(ln)
normalize_input_line(ln) ==
    LET line == Strip(ln) IN
    IF line = <<>> THEN <<>>
    ELSE IF ~StartsWithHttp(line) THEN WatchPrefix \o line
    ELSE line

\* ---------------------------------------------------------------- input
\* f-string "X", " x ", "Y", a blank line, the watch URL of X
LineX == <<"X">>
LineXs == <<" ", "x", " ">>
LineY == <<"Y">>
LineBlank == <<" ">>
LineUrlX == <<"https://", "www.youtube.com/watch?v=", "X">>
\* the same URL followed by a blank, and an http:// URL
LineUrlXs == <<"https://", "www.youtube.com/watch?v=", "X", " ">>
LineHttp == <<"http://", "host/", "v">>

LineValues == {LineX, LineXs, LineY, LineBlank, LineUrlX}

SeqsUpTo(S, n) == UNION {[1..k -> S] : k \in 0..n}

\* raw_lines = [ln.strip() for ln in f if ln.strip()]
RECURSIVE StripNonBlank(_)
StripNonBlank(ls) ==
    IF ls = <<>> THEN <<>>
    ELSE IF Strip(Head(ls)) # <<>>
         THEN <<Strip(Head(ls))>> \o StripNonBlank(Tail(ls))
         ELSE StripNonBlank(Tail(ls))

\* key = ln.strip().lower()
InputKeyCaseSensitive(ln) == Strip(ln)
InputKey(ln) == Lower(Strip(ln))

Configs ==
    [workers : {1, 2}, retries : 0..MaxRetries,
     no_metadata : BOOLEAN, fallback_watch : BOOLEAN]

InitRest ==
    /\ pc = "load"
    /\ raw_lines = <<>>
    /\ di = 1
    /\ unique_inputs = <<>>
    /\ seen_input_lines = {}
    /\ skipped = {}
    /\ w = <<>>
    /\ done_q = <<>>
    /\ buffered = <<>>
    /\ expire_max = NoneEpoch
    /\ special_url = None
    /\ out_buf = <<>>
    /\ out_file = <<>>
    /\ out_synced = 0
    /\ bi = 1
    /\ added_keys = {}
    /\ added_urls = {}
    /\ emitted = {}

mainVars == <<raw_lines, di, unique_inputs, seen_input_lines, skipped>>
poolVars == <<w, done_q, buffered>>
outVars == <<expire_max, special_url, out_buf, out_file, out_synced, bi,
             added_keys, added_urls, emitted>>

\* main, lines 285-287: the input file is read, stripped, blank lines dropped
LoadInput ==
    /\ pc = "load"
    /\ raw_lines' = StripNonBlank(file_lines)
    /\ pc' = "dedup"
    /\ UNCHANGED <<file_lines, cfg, counting, now, di, unique_inputs, seen_input_lines, skipped>>
    /\ UNCHANGED poolVars
    /\ UNCHANGED outVars

\* main, lines 294-302: one iteration of the pre-fetch loop
DedupStep ==
    /\ pc = "dedup"
    /\ di <= Len(raw_lines)
    /\ LET ln == raw_lines[di]
           key == InputKey(ln)
       IN  IF key = <<>>
           THEN UNCHANGED <<unique_inputs, seen_input_lines, skipped>>
           ELSE IF key \in seen_input_lines
           THEN /\ skipped' = skipped \cup {di}
                /\ UNCHANGED <<unique_inputs, seen_input_lines>>
           ELSE /\ seen_input_lines' = seen_input_lines \cup {key}
                /\ unique_inputs' = Append(unique_inputs, ln)
                /\ UNCHANGED skipped
    /\ di' = di + 1
    /\ UNCHANGED <<file_lines, cfg, counting, now, pc, raw_lines>>
    /\ UNCHANGED poolVars
    /\ UNCHANGED outVars

\* ---------------------------------------------------------------- resolver output
\* URLs the resolver may print
UrlPlain == <<"https://", "cdn/", "v">>
UrlPlain2 == <<"https://", "cdn/", "v2">>
UrlManifest == <<"https://", "cdn/", "hls_playlist", "/", "v", ".", "M3U8">>

DigitTok == <<"0", "1", "2", "3", "4", "5", "6", "7", "8", "9">>
IsDigit(t) == \E d \in 1..10 : DigitTok[d] = t
DigitVal(t) == (CHOOSE d \in 1..10 : DigitTok[d] = t) - 1

RECURSIVE Digits(_)
Digits(n) == IF n < 10 THEN <<DigitTok[n + 1]>>
             ELSE Digits(n \div 10) \o <<DigitTok[(n % 10) + 1]>>

UrlExpire(n) == <<"https://", "cdn/", "Expire/">> \o Digits(n) \o <<"/", "v">>

\* int(m.group(1)) for the digits at the start of s
RECURSIVE ParseDigits(_, _)
ParseDigits(s, acc) ==
    IF s # <<>> /\ IsDigit(Head(s))
    THEN ParseDigits(Tail(s), 10 * acc + DigitVal(Head(s)))
    ELSE acc

\* EXPIRE_RE = re.compile(r'expire/(\d+)', re.IGNORECASE); EXPIRE_RE.search(url)
ExpireMatches(url) ==
    {i \in 1..(Len(url) - 1) : LowerTok(url[i]) = "expire/" /\ IsDigit(url[i + 1])}

ExpireOf(url) ==
    IF ExpireMatches(url) = {} THEN NoneEpoch
    ELSE LET i == CHOOSE k \in ExpireMatches(url) : \A j \in ExpireMatches(url) : k <= j
         IN  ParseDigits(SubSeq(url, i + 1, Len(url)), 0)

is_manifest_url(url) ==
    IF ~Truthy(url) THEN FALSE
    ELSE LET u == Lower(url) IN
         \/ IsInfix(<<".", "m3u8">>, u)
         \/ IsInfix(<<"manifest">>, u)
         \/ IsInfix(<<"hls_playlist">>, u)

\* first_http_line(text): text is a sequence of lines
RECURSIVE first_http_line(_)
first_http_line(text) ==
    IF text = <<>> THEN None
    ELSE IF StartsWithHttp(Strip(Head(text))) THEN Strip(Head(text))
    ELSE first_http_line(Tail(text))

\* get_minimal_meta, lines 132-140: out is a sequence of lines, a line a sequence
\* of tab-separated fields
Field(parts, n) ==
    IF Len(parts) >= n /\ Strip(parts[n]) # <<>> THEN Strip(parts[n]) ELSE None

NoMeta == [meta_id |-> None, title |-> None, thumbnail |-> None]

ParseMeta(out) ==
    IF out = <<>> THEN NoMeta
    ELSE LET parts == out[1] IN
         [meta_id |-> Field(parts, 1), title |-> Field(parts, 2),
          thumbnail |-> Field(parts, 3)]

\* get_stream_url_with_ytdlp, lines 170-189: the scan of the parsed JSON
RECURSIVE FirstWithUrl(_)
FirstWithUrl(fs) ==
    IF fs = <<>> THEN None
    ELSE IF Truthy(Head(fs).url) THEN Head(fs).url
    ELSE FirstWithUrl(Tail(fs))

IsM3u8Format(f) ==
    /\ Truthy(f.url)
    /\ \/ IsInfix(<<".", "m3u8">>, f.ext)
       \/ IsInfix(<<"m3u8">>, f.protocol)

RECURSIVE FirstM3u8(_)
FirstM3u8(fs) ==
    IF fs = <<>> THEN None
    ELSE IF IsM3u8Format(Head(fs)) THEN Head(fs).url
    ELSE FirstM3u8(Tail(fs))

ScanJson(parsed) ==
    IF parsed.kind # "dict" THEN None
    ELSE IF Truthy(parsed.url) THEN parsed.url
    ELSE IF Truthy(FirstWithUrl(parsed.requested_formats))
         THEN FirstWithUrl(parsed.requested_formats)
    ELSE IF Truthy(FirstM3u8(parsed.formats)) THEN FirstM3u8(parsed.formats)
    ELSE FirstWithUrl(parsed.formats)

Fmt(u, e, p) == [url |-> u, ext |-> e, protocol |-> p]
Json(k, u, rq, fs) == [kind |-> k, url |-> u, requested_formats |-> rq, formats |-> fs]

\* what --print may give: nothing, the three fields, the identifier alone
MetaA == <<<<<<"idA">>, <<"Title", " ">>, <<"https://", "img/", "a">>>>>>
MetaIdOnly == <<<<<<"idA">>>>>>
MetaOutsAll == {<<>>, MetaA, MetaIdOnly}
MetaOutsRun == {<<>>, MetaA}

\* what -g may give: nothing, a warning then a URL, a URL
StreamOutsAll ==
    {<<>>, <<<<"WARNING">>>>, <<<<"WARNING">>, UrlPlain>>, <<UrlManifest>>}
        \cup {<<UrlExpire(n)>> : n \in 0..MaxEpoch}
StreamOutsRun == {<<>>, <<UrlPlain>>, <<UrlManifest>>, <<UrlExpire(MaxEpoch)>>}

\* what -j may give: no JSON, a list, a dictionary
JsonOutsAll ==
    {Json("invalid", None, <<>>, <<>>),
     Json("list", None, <<>>, <<>>),
     Json("dict", UrlPlain, <<>>, <<>>),
     Json("dict", None, <<[url |-> None], [url |-> UrlPlain2]>>, <<>>),
     Json("dict", None, <<>>,
          <<Fmt(UrlPlain, <<"mp4">>, <<"https">>),
            Fmt(UrlManifest, <<"mp4">>, <<"m3u8", "_native">>)>>),
     Json("dict", None, <<>>, <<Fmt(None, <<"m3u8">>, <<"https">>),
                                Fmt(UrlPlain2, <<"m3u8">>, <<"https">>)>>),
     Json("dict", None, <<>>, <<>>),
     Json("dict", NotAString, <<>>, <<>>)}
JsonOutsRun ==
    {Json("invalid", None, <<>>, <<>>), Json("dict", UrlPlain2, <<>>, <<>>),
     Json("dict", NotAString, <<>>, <<>>)}

\* ---------------------------------------------------------------- retry loop
Backoff == 3    \* backoff = 1.5 seconds, in half seconds

\* line 82 / line 87: if attempt > retries: raise
RetriesExhaustedOffByOne(attempt, retries) == attempt >= retries
RetriesExhausted(attempt, retries) == attempt > retries

\* line 84 / line 89: time.sleep(backoff * attempt)
SleepDelay(attempt) == Backoff * attempt

\* ---------------------------------------------------------------- worker
NoRec == [line |-> <<>>, meta_id |-> None, title |-> None, thumbnail |-> None,
          stream_url |-> None, expire_epoch |-> NoneEpoch]

PendingWorker ==
    [st |-> "pending", phase |-> "none", attempt |-> 0, sleeps |-> <<>>,
     meta |-> NoMeta, stream |-> None, rec |-> NoRec, calls |-> 0, allto |-> TRUE,
     ended |-> "none", tried |-> <<>>]

\* check_url_entry_buffered, lines 235-236
FallbackNever(stream, watch_url, fallback_watch) == stream
FallbackUrl(stream, watch_url, fallback_watch) ==
    IF ~Truthy(stream) /\ fallback_watch THEN watch_url ELSE stream

\* check_url_entry_buffered, lines 221-230 and 235-245: the record returned for
\* `line` given the metadata and the stream URL the resolver calls gave
MakeRecord(line, meta, stream, fallback_watch) ==
    LET watch_url == normalize_input_line(line)
        hasMeta == Truthy(meta.meta_id) \/ Truthy(meta.title) \/ Truthy(meta.thumbnail)
        stream_url == FallbackUrl(stream, watch_url, fallback_watch)
    IN  [line |-> line,
         meta_id |-> IF hasMeta THEN OrElse(meta.meta_id, None) ELSE None,
         title |-> IF hasMeta THEN OrElse(meta.title, line) ELSE line,
         thumbnail |-> IF hasMeta THEN OrElse(meta.thumbnail, None) ELSE None,
         stream_url |-> stream_url,
         expire_epoch |-> IF Truthy(stream_url) THEN ExpireOf(stream_url) ELSE NoneEpoch]

\* the workers a pool thread is running (ThreadPoolExecutor(max_workers=workers))
NoneRunning == {}
Running == {i \in 1..Len(w) : w[i].st = "running"}

\* main, lines 320-334: every unique input line is submitted to the executor
SubmitInsideDedupLoop ==
    /\ pc = "dedup"
    /\ unique_inputs # <<>>
    /\ w' = [i \in 1..Len(unique_inputs) |-> PendingWorker]
    /\ pc' = "pool"
    /\ UNCHANGED <<file_lines, cfg, counting, now, done_q, buffered>>
    /\ UNCHANGED mainVars
    /\ UNCHANGED outVars
Submit ==
    /\ pc = "dedup"
    /\ di > Len(raw_lines)
    /\ w' = [i \in 1..Len(unique_inputs) |-> PendingWorker]
    /\ pc' = "pool"
    /\ UNCHANGED <<file_lines, cfg, counting, now, done_q, buffered>>
    /\ UNCHANGED mainVars
    /\ UNCHANGED outVars

\* one more resolver call (run_cmd, line 64)
Count(n) == IF counting THEN n + 1 ELSE n

\* how the retry loop ended: "returned" (line 79) or "raised" (lines 83, 88)
Ended(how) == IF counting THEN how ELSE "none"

\* line 239: EXPIRE_RE.search(stream_url) raises TypeError on a value that is not
\* a string, outside every try block of check_url_entry_buffered
SearchRaises(stream_url) == stream_url = NotAString

\* a strategy of get_stream_url_with_ytdlp has ended: what it gave is kept
RaisedMark == <<"<raised>">>
Tried(wi, gave) ==
    [wi EXCEPT !.tried = IF counting THEN Append(@, [phase |-> wi.phase, gave |-> gave])
                         ELSE @]

\* get_stream_url_with_ytdlp has returned `stream`: the worker returns its record
\* (line 245) or raises (line 239), and the future completes
Return(i, wi, stream) ==
    /\ w' = [w EXCEPT ![i] =
                IF SearchRaises(FallbackUrl(stream, normalize_input_line(unique_inputs[i]),
                                            cfg.fallback_watch))
                THEN [wi EXCEPT !.st = "raised", !.phase = "end",
                                !.attempt = 0, !.sleeps = <<>>,
                                !.meta = NoMeta, !.stream = stream]
                ELSE [wi EXCEPT !.st = "returned", !.phase = "end",
                                !.attempt = 0, !.sleeps = <<>>,
                                !.meta = NoMeta, !.stream = stream,
                                !.rec = MakeRecord(Strip(unique_inputs[i]), wi.meta,
                                                   stream, cfg.fallback_watch)]]
    /\ done_q' = Append(done_q, i)

\* the worker goes on to its next resolver call
GoTo(i, wi, phase, meta) ==
    /\ w' = [w EXCEPT ![i] = [wi EXCEPT !.phase = phase, !.attempt = 0,
                                        !.sleeps = <<>>, !.meta = meta]]
    /\ UNCHANGED done_q

\* a pool thread takes the oldest pending item (lines 218-225)
WorkerStart(i) ==
    /\ pc = "pool"
    /\ w[i].st = "pending"
    /\ \A j \in 1..(i - 1) : w[j].st # "pending"
    /\ Cardinality(Running) < cfg.workers
    /\ IF Strip(unique_inputs[i]) = <<>>
       THEN /\ w' = [w EXCEPT ![i].st = "returned", ![i].phase = "end"]
            /\ done_q' = Append(done_q, i)
       ELSE /\ w' = [w EXCEPT ![i].st = "running",
                              ![i].phase = IF cfg.no_metadata THEN "g" ELSE "meta"]
            /\ UNCHANGED done_q
    /\ UNCHANGED <<file_lines, cfg, counting, now, pc, buffered>>
    /\ UNCHANGED mainVars
    /\ UNCHANGED outVars

\* the retry loop has raised: the except clauses of get_minimal_meta (line 141)
\* and of get_stream_url_with_ytdlp (lines 155, 164, 190)
CallRaisedGivesUp(i, wi) ==
    IF wi.phase = "meta" THEN GoTo(i, wi, "g", NoMeta)
    ELSE Return(i, Tried(wi, RaisedMark), None)
CallRaised(i, wi) ==
    CASE wi.phase = "meta" -> GoTo(i, wi, "g", NoMeta)
      [] wi.phase = "g" -> GoTo(i, Tried(wi, RaisedMark), "fg", wi.meta)
      [] wi.phase = "fg" -> GoTo(i, Tried(wi, RaisedMark), "j", wi.meta)
      [] OTHER -> Return(i, Tried(wi, RaisedMark), None)

\* run_yt_dlp_cmd_with_retries, lines 80-89: one attempt times out or raises
AttemptFails(i, timedOut) ==
    /\ pc = "pool"
    /\ w[i].st = "running"
    /\ LET attempt == w[i].attempt + 1
           wi == [w[i] EXCEPT !.calls = Count(@), !.allto = @ /\ timedOut]
       IN  IF RetriesExhausted(attempt, cfg.retries)
           THEN CallRaised(i, [wi EXCEPT !.ended = Ended("raised")])
           ELSE /\ w' = [w EXCEPT ![i] = [wi EXCEPT !.attempt = attempt,
                                                   !.sleeps = Append(@, SleepDelay(attempt))]]
                /\ UNCHANGED done_q
    /\ UNCHANGED <<file_lines, cfg, counting, now, pc, buffered>>
    /\ UNCHANGED mainVars
    /\ UNCHANGED outVars

\* subprocess.TimeoutExpired (line 80)
AttemptTimesOut(i) == AttemptFails(i, TRUE)

\* any other exception (line 85)
AttemptRaises(i) == AttemptFails(i, FALSE)

Answered(i) == [w[i] EXCEPT !.calls = Count(@), !.allto = FALSE,
                             !.ended = Ended("returned")]

\* get_minimal_meta, lines 131-140: the --print call returns
MetaReturns(i, out) ==
    /\ pc = "pool"
    /\ w[i].st = "running"
    /\ w[i].phase = "meta"
    /\ GoTo(i, Answered(i), "g", ParseMeta(out))
    /\ UNCHANGED <<file_lines, cfg, counting, now, pc, buffered>>
    /\ UNCHANGED mainVars
    /\ UNCHANGED outVars

\* get_stream_url_with_ytdlp, lines 150-154 and 159-163: a -g call returns
StreamReturns(i, out) ==
    /\ pc = "pool"
    /\ w[i].st = "running"
    /\ w[i].phase \in {"g", "fg"}
    /\ LET m == first_http_line(out) IN
       IF Truthy(m) THEN Return(i, Tried(Answered(i), m), m)
       ELSE GoTo(i, Tried(Answered(i), m), IF w[i].phase = "g" THEN "fg" ELSE "j",
                 w[i].meta)
    /\ UNCHANGED <<file_lines, cfg, counting, now, pc, buffered>>
    /\ UNCHANGED mainVars
    /\ UNCHANGED outVars

\* get_stream_url_with_ytdlp, lines 168-192: the -j call returns
JsonReturns(i, parsed) ==
    /\ pc = "pool"
    /\ w[i].st = "running"
    /\ w[i].phase = "j"
    /\ Return(i, Tried(Answered(i), ScanJson(parsed)), ScanJson(parsed))
    /\ UNCHANGED <<file_lines, cfg, counting, now, pc, buffered>>
    /\ UNCHANGED mainVars
    /\ UNCHANGED outVars

\* main, lines 335-341: as_completed yields the next completed future; its result
\* is appended, or its exception is reported
Collect ==
    /\ pc = "pool"
    /\ done_q # <<>>
    /\ LET i == Head(done_q) IN
       /\ buffered' = IF w[i].st = "raised" THEN buffered ELSE Append(buffered, w[i].rec)
       /\ w' = [w EXCEPT ![i].st = IF w[i].st = "raised" THEN "failed" ELSE "collected",
                         ![i].calls = 0, ![i].ended = "none", ![i].tried = <<>>]
    /\ done_q' = Tail(done_q)
    /\ UNCHANGED <<file_lines, cfg, counting, now, pc>>
    /\ UNCHANGED mainVars
    /\ UNCHANGED outVars

\* ---------------------------------------------------------------- output phase
\* main, lines 344-345
MaxOf(S) == CHOOSE m \in S : \A x \in S : x <= m

EpochTruthy(e) == e # NoneEpoch /\ e # 0

ExpireMax(buf) ==
    LET expire_epochs == {buf[k].expire_epoch : k \in {j \in 1..Len(buf) :
                                                  EpochTruthy(buf[j].expire_epoch)}}
    IN  IF expire_epochs # {} THEN MaxOf(expire_epochs) ELSE NoneEpoch

\* main, line 355
RECURSIVE FirstManifest(_)
FirstManifest(buf) ==
    IF buf = <<>> THEN None
    ELSE IF Truthy(Head(buf).stream_url) /\ is_manifest_url(Head(buf).stream_url)
         THEN Head(buf).stream_url
    ELSE FirstManifest(Tail(buf))

\* main, line 356
FirstWatch(inputs) ==
    IF inputs # <<>> THEN normalize_input_line(inputs[1]) ELSE None

\* main, line 357
SpecialUrlWatchFirst(buf, inputs) == OrElse(FirstWatch(inputs), FirstManifest(buf))
SpecialUrl(buf, inputs) == OrElse(FirstManifest(buf), FirstWatch(inputs))

Favicon == <<"https://", "favicon">>

Line(kind, id, logo, title, url) ==
    [kind |-> kind, id |-> id, logo |-> logo, title |-> title, url |-> url]

\* write_header, lines 250-251
HeaderLines ==
    <<Line("extm3u", None, None, None, None), Line("created", None, None, None, None)>>

\* " και ".join(parts)
RECURSIVE JoinAnd(_)
JoinAnd(parts) ==
    IF parts = <<>> THEN <<>>
    ELSE IF Len(parts) = 1 THEN parts[1]
    ELSE parts[1] \o <<" and ">> \o JoinAnd(Tail(parts))

\* f"{n} {singular if n == 1 else plural}"
Amount(n, singular, plural) == Digits(n) \o <<IF n = 1 THEN singular ELSE plural>>

\* human_readable_delta_greek_full, on the whole seconds of the delta (line 107);
\* the Greek words are written in English
human_readable_delta_at_zero(total) ==
    IF total < 0 THEN <<"expires now">>
    ELSE <<"in ">> \o JoinAnd(
             (IF total \div 3600 # 0 THEN <<Amount(total \div 3600, " hour", " hours")>> ELSE <<>>)
             \o (IF (total % 3600) \div 60 # 0
                 THEN <<Amount((total % 3600) \div 60, " minute", " minutes")>> ELSE <<>>)
             \o (IF (total % 3600) % 60 # 0
                 THEN <<Amount((total % 3600) % 60, " second", " seconds")>> ELSE <<>>))
human_readable_delta_greek_full(total) ==
    IF total <= 0 THEN <<"expires now">>
    ELSE LET hours == total \div 3600
             rem == total % 3600
             minutes == rem \div 60
             seconds == rem % 60
             parts == (IF hours # 0 THEN <<Amount(hours, " hour", " hours")>> ELSE <<>>)
                      \o (IF minutes # 0 THEN <<Amount(minutes, " minute", " minutes")>>
                          ELSE <<>>)
                      \o (IF seconds # 0 THEN <<Amount(seconds, " second", " seconds")>>
                          ELSE <<>>)
         IN  <<"in ">> \o JoinAnd(parts)

NotAvailable == <<"n/a">>

\* main, lines 360-376: expire_str (the date of expire_max, written as its epoch)
ExpireStr(emax) == IF EpochTruthy(emax) THEN Digits(emax) ELSE NotAvailable

\* main, lines 360-376: rel_str
RelStr(emax, clock) ==
    IF EpochTruthy(emax) THEN human_readable_delta_greek_full(emax - clock)
    ELSE NotAvailable

\* build_special_extinf_only_expire with the strings of lines 360-376
SpecialExtinf(emax, clock) ==
    Line("extinf", <<"info">>, Favicon,
         <<"expiry: ">> \o ExpireStr(emax) \o <<" (">> \o RelStr(emax, clock) \o <<")">>,
         None)

\* build_entry_extinf(meta_id, item_logo, title or input_line), lines 394-399
EntryExtinf(r) ==
    Line("extinf", r.meta_id, OrElse(r.thumbnail, Favicon),
         Strip(OrElse(r.title, r.line)), None)

UrlLine(u) == Line("url", None, None, None, u)

\* key_norm, line 395
KeyNorm(r) == Lower(Strip(OrElse(r.meta_id, OrElse(r.title, <<>>))))

\* the loop of line 335 ends when every future was yielded
CollectedOrSomeFailed ==
    \/ \A i \in 1..Len(w) : w[i].st \in {"collected", "failed"}
    \/ \E i \in 1..Len(w) : w[i].st = "failed"
AllCollected == \A i \in 1..Len(w) : w[i].st \in {"collected", "failed"}

\* main, lines 335-345: the pool is drained and the maximal expiry is computed
Aggregate ==
    /\ pc = "pool"
    /\ AllCollected
    /\ expire_max' = ExpireMax(buffered)
    /\ pc' = "header"
    /\ UNCHANGED <<file_lines, cfg, counting, now, special_url, out_buf, out_file, out_synced, bi,
                   added_keys, added_urls, emitted>>
    /\ UNCHANGED mainVars
    /\ UNCHANGED poolVars

\* write_header, lines 249-251: the file is truncated and the two lines written
HeaderWrite ==
    /\ pc = "header"
    /\ out_file' = <<>>
    /\ out_synced' = 0
    /\ out_buf' = HeaderLines
    /\ pc' = "header_close"
    /\ UNCHANGED <<file_lines, cfg, counting, now, expire_max, special_url, bi, added_keys,
                   added_urls, emitted>>
    /\ UNCHANGED mainVars
    /\ UNCHANGED poolVars

\* write_header: the with block closes the file, which flushes it
HeaderClose ==
    /\ pc = "header_close"
    /\ out_file' = out_file \o out_buf
    /\ out_buf' = <<>>
    /\ pc' = "special"
    /\ UNCHANGED <<file_lines, cfg, counting, now, expire_max, special_url, out_synced, bi,
                   added_keys, added_urls, emitted>>
    /\ UNCHANGED mainVars
    /\ UNCHANGED poolVars

\* main, lines 355-384: the special entry is chosen and written
WriteSpecialIfEndpoint ==
    /\ pc = "special"
    /\ special_url' = SpecialUrl(buffered, unique_inputs)
    /\ out_buf' = IF Truthy(special_url')
                  THEN out_buf \o <<SpecialExtinf(expire_max, now), UrlLine(special_url')>>
                  ELSE out_buf
    /\ pc' = "loop"
    /\ UNCHANGED <<file_lines, cfg, counting, now, expire_max, out_file, out_synced, bi,
                   added_keys, added_urls, emitted>>
    /\ UNCHANGED mainVars
    /\ UNCHANGED poolVars
WriteSpecial ==
    /\ pc = "special"
    /\ special_url' = SpecialUrl(buffered, unique_inputs)
    /\ out_buf' = out_buf \o <<SpecialExtinf(expire_max, now)>>
                   \o (IF Truthy(special_url') THEN <<UrlLine(special_url')>> ELSE <<>>)
    /\ pc' = "loop"
    /\ UNCHANGED <<file_lines, cfg, counting, now, expire_max, out_file, out_synced, bi,
                   added_keys, added_urls, emitted>>
    /\ UNCHANGED mainVars
    /\ UNCHANGED poolVars

\* lines 390, 393, 398: continue
ContinueAsBreak(b) == Len(buffered) + 1
Continue(b) == b + 1

\* lines 389-398: the record is skipped
SkippedByIgnoringSpecial(r, surl, urls, keys) ==
    \/ ~Truthy(r.stream_url)
    \/ (Truthy(r.stream_url) /\ r.stream_url \in urls)
    \/ (Truthy(KeyNorm(r)) /\ KeyNorm(r) \in keys)
SkippedByUrlOnly(r, surl, urls, keys) ==
    \/ ~Truthy(r.stream_url)
    \/ (Truthy(surl) /\ r.stream_url = surl)
    \/ (Truthy(r.stream_url) /\ r.stream_url \in urls)
SkippedByKeyOnly(r, surl, urls, keys) ==
    \/ ~Truthy(r.stream_url)
    \/ (Truthy(surl) /\ r.stream_url = surl)
    \/ (Truthy(KeyNorm(r)) /\ KeyNorm(r) \in keys)
SkippedBy(r, surl, urls, keys) ==
    \/ ~Truthy(r.stream_url)
    \/ (Truthy(surl) /\ r.stream_url = surl)
    \/ (Truthy(r.stream_url) /\ r.stream_url \in urls)
    \/ (Truthy(KeyNorm(r)) /\ KeyNorm(r) \in keys)

\* main, lines 388-411: one iteration of the post-fetch loop. os.fsync may raise,
\* which is ignored (lines 403-406)
EmitStep(fsync_ok) ==
    /\ pc = "loop"
    /\ bi <= Len(buffered)
    /\ LET r == buffered[bi] IN
       IF SkippedBy(r, special_url, added_urls, added_keys)
       THEN /\ bi' = Continue(bi)
            /\ UNCHANGED <<out_buf, out_file, out_synced, added_keys, added_urls, emitted>>
       ELSE /\ bi' = bi + 1
            /\ out_file' = out_file \o out_buf \o <<EntryExtinf(r), UrlLine(r.stream_url)>>
            /\ out_buf' = <<>>
            /\ out_synced' = IF fsync_ok THEN Len(out_file') ELSE out_synced
            /\ added_urls' = added_urls \cup {r.stream_url}
            /\ added_keys' = IF Truthy(KeyNorm(r)) THEN added_keys \cup {KeyNorm(r)}
                             ELSE added_keys
            /\ emitted' = emitted \cup {bi}
    /\ UNCHANGED <<file_lines, cfg, counting, now, pc, expire_max, special_url>>
    /\ UNCHANGED mainVars
    /\ UNCHANGED poolVars

\* main, line 381: the with block closes the output file, which flushes it
CloseOutput ==
    /\ pc = "loop"
    /\ bi > Len(buffered)
    /\ out_file' = out_file \o out_buf
    /\ out_buf' = <<>>
    /\ pc' = "done"
    /\ UNCHANGED <<file_lines, cfg, counting, now, expire_max, special_url, out_synced, bi,
                   added_keys, added_urls, emitted>>
    /\ UNCHANGED mainVars
    /\ UNCHANGED poolVars

\* ---------------------------------------------------------------- pre-fetch specification
InitDedup ==
    /\ file_lines \in SeqsUpTo(LineValues, MaxLines)
    /\ cfg \in {c \in Configs : c.workers = 1 /\ c.retries = 0
                                /\ ~c.no_metadata /\ c.fallback_watch}
    /\ counting = FALSE
    /\ now = 0
    /\ InitRest

NextDedup == LoadInput \/ DedupStep

SpecDedup == InitDedup /\ [][NextDedup]_vars

\* ---------------------------------------------------------------- the run
\* input files of the whole run
RunInputs ==
    {<<>>, <<LineX>>, <<LineX, LineBlank, LineXs>>, <<LineX, LineUrlX>>}

\* and three lines on two pool threads, with metadata and without retries
RunCases ==
    (RunInputs \X Configs)
        \cup ({<<LineY, LineX, LineUrlX>>}
                  \X {c \in Configs : c.workers = 2 /\ c.retries = 0 /\ ~c.no_metadata})

Init ==
    /\ \E c \in RunCases : file_lines = c[1] /\ cfg = c[2]
    /\ counting = FALSE
    /\ now = 0
    /\ InitRest

Next ==
    \/ LoadInput
    \/ DedupStep
    \/ Submit
    \/ \E i \in 1..Len(w) : WorkerStart(i)
    \/ \E i \in 1..Len(w) : AttemptTimesOut(i)
    \/ \E i \in 1..Len(w) : AttemptRaises(i)
    \/ \E i \in 1..Len(w), out \in MetaOutsRun : MetaReturns(i, out)
    \/ \E i \in 1..Len(w), out \in StreamOutsRun : StreamReturns(i, out)
    \/ \E i \in 1..Len(w), out \in JsonOutsRun : JsonReturns(i, out)
    \/ Collect
    \/ Aggregate
    \/ HeaderWrite
    \/ HeaderClose
    \/ WriteSpecial
    \/ \E fsync_ok \in BOOLEAN : EmitStep(fsync_ok)
    \/ CloseOutput

Spec == Init /\ [][Next]_vars

\* ---------------------------------------------------------------- one worker
\* one input line, every configuration, every answer of the resolver, calls counted
InitWorker ==
    /\ file_lines \in {<<LineX>>, <<LineXs>>, <<LineUrlX>>, <<LineUrlXs>>, <<LineHttp>>}
    /\ cfg \in {c \in Configs : c.workers = 1}
    /\ counting = TRUE
    /\ now = 0
    /\ InitRest

NextWorker ==
    \/ LoadInput
    \/ DedupStep
    \/ Submit
    \/ \E i \in 1..Len(w) : WorkerStart(i)
    \/ \E i \in 1..Len(w) : AttemptTimesOut(i)
    \/ \E i \in 1..Len(w) : AttemptRaises(i)
    \/ \E i \in 1..Len(w), out \in MetaOutsAll : MetaReturns(i, out)
    \/ \E i \in 1..Len(w), out \in StreamOutsAll : StreamReturns(i, out)
    \/ \E i \in 1..Len(w), out \in JsonOutsAll : JsonReturns(i, out)
    \/ Collect

SpecWorker == InitWorker /\ [][NextWorker]_vars

\* ---------------------------------------------------------------- the output phase
\* the output phase of main on every buffer the fan-in can leave: the records of
\* the input lines, in any order of completion, for any answers of the resolver
EmitInputs == {<<>>, <<LineX>>, <<LineX, LineY, LineUrlX>>}
EmitMetas == {NoMeta, ParseMeta(MetaA)}
EmitStreams == {None, UrlPlain, UrlManifest} \cup {UrlExpire(n) : n \in 0..MaxEpoch}

Perms(n) == {p \in [1..n -> 1..n] : \A a, b \in 1..n : p[a] = p[b] => a = b}

InitEmit ==
    /\ file_lines \in EmitInputs
    /\ cfg \in {c \in Configs : c.workers = 1 /\ c.retries = 0 /\ ~c.no_metadata}
    /\ counting = FALSE
    /\ now = 0
    /\ pc = "pool"
    /\ raw_lines = StripNonBlank(file_lines)
    /\ di = Len(raw_lines) + 1
    /\ unique_inputs = raw_lines
    /\ seen_input_lines = {InputKey(raw_lines[k]) : k \in 1..Len(raw_lines)}
    /\ skipped = {}
    /\ done_q = <<>>
    /\ \E order \in Perms(Len(raw_lines)) :
       \E metas \in [1..Len(raw_lines) -> EmitMetas] :
       \E streams \in [1..Len(raw_lines) -> EmitStreams] :
          /\ w = [i \in 1..Len(raw_lines) |->
                    [PendingWorker EXCEPT
                        !.st = "collected", !.phase = "end", !.allto = FALSE,
                        !.stream = streams[i],
                        !.rec = MakeRecord(raw_lines[i], metas[i], streams[i],
                                           cfg.fallback_watch)]]
          /\ buffered = [k \in 1..Len(raw_lines) |-> w[order[k]].rec]
    /\ expire_max = NoneEpoch
    /\ special_url = None
    /\ out_buf = <<>>
    /\ out_file = <<>>
    /\ out_synced = 0
    /\ bi = 1
    /\ added_keys = {}
    /\ added_urls = {}
    /\ emitted = {}

NextEmit ==
    \/ Aggregate
    \/ HeaderWrite
    \/ HeaderClose
    \/ WriteSpecial
    \/ \E fsync_ok \in BOOLEAN : EmitStep(fsync_ok)
    \/ CloseOutput

SpecEmit == InitEmit /\ [][NextEmit]_vars

\* ---------------------------------------------------------------- the pool
\* the resolution phase of two or three items on one or two pool threads, up to the
\* end of the as_completed loop; a thread that can take a step takes it (a resolver
\* call returns or times out, a sleep ends)
PoolInputs == {<<LineY, LineX>>, <<LineY, LineX, LineUrlX>>}
MetaOutsPool == {MetaA}
StreamOutsPool == {<<>>, <<UrlPlain>>}
JsonOutsPool == {Json("invalid", None, <<>>, <<>>), Json("dict", NotAString, <<>>, <<>>)}

InitPool ==
    /\ file_lines \in PoolInputs
    /\ cfg \in {c \in Configs : c.retries = 0 /\ c.fallback_watch
                                /\ (Len(file_lines) > 2 => c.no_metadata)}
    /\ counting = FALSE
    /\ now = 0
    /\ InitRest

NextPool ==
    \/ LoadInput
    \/ DedupStep
    \/ Submit
    \/ \E i \in 1..Len(w) : WorkerStart(i)
    \/ \E i \in 1..Len(w) : AttemptTimesOut(i)
    \/ \E i \in 1..Len(w) : AttemptRaises(i)
    \/ \E i \in 1..Len(w), out \in MetaOutsPool : MetaReturns(i, out)
    \/ \E i \in 1..Len(w), out \in StreamOutsPool : StreamReturns(i, out)
    \/ \E i \in 1..Len(w), out \in JsonOutsPool : JsonReturns(i, out)
    \/ Collect
    \/ Aggregate

SpecPool == InitPool /\ [][NextPool]_vars /\ WF_vars(NextPool)

\* ---------------------------------------------------------------- the expiry text
\* the output phase of main for one record whose endpoint expires some hours,
\* minutes and seconds after the epoch, the clock read before, at or after it
DeltaParts == {0, 1, 59}
DeltaEpochs ==
    {h * 3600 + m * 60 + sec : h \in 0..MaxHours, m \in DeltaParts, sec \in DeltaParts}
Clocks == {0, 1, 3600}

InitDelta ==
    /\ file_lines = <<LineX>>
    /\ cfg \in {c \in Configs : c.workers = 1 /\ c.retries = 0 /\ ~c.no_metadata
                                /\ c.fallback_watch}
    /\ counting = FALSE
    /\ now \in Clocks
    /\ pc = "pool"
    /\ raw_lines = StripNonBlank(file_lines)
    /\ di = Len(raw_lines) + 1
    /\ unique_inputs = raw_lines
    /\ seen_input_lines = {InputKey(raw_lines[k]) : k \in 1..Len(raw_lines)}
    /\ skipped = {}
    /\ done_q = <<>>
    /\ \E e \in DeltaEpochs :
          /\ w = <<[PendingWorker EXCEPT
                      !.st = "collected", !.phase = "end", !.allto = FALSE,
                      !.stream = UrlExpire(e),
                      !.rec = MakeRecord(raw_lines[1], NoMeta, UrlExpire(e),
                                         cfg.fallback_watch)]>>
          /\ buffered = <<w[1].rec>>
    /\ expire_max = NoneEpoch
    /\ special_url = None
    /\ out_buf = <<>>
    /\ out_file = <<>>
    /\ out_synced = 0
    /\ bi = 1
    /\ added_keys = {}
    /\ added_urls = {}
    /\ emitted = {}

SpecDelta == InitDelta /\ [][NextEmit]_vars

\* ================================================================ claims

\* ---------------------------------------------------------------- C4
\* lines of raw_lines the pre-fetch loop has been through
Processed ==
    IF pc = "load" THEN 0 ELSE IF pc = "dedup" THEN di - 1 ELSE Len(raw_lines)

PreFetchDone == pc = "dedup" /\ di > Len(raw_lines)

\* no earlier line has the same lowercase-trimmed text
FirstOccurrence(i) ==
    \A j \in 1..(i - 1) : Lower(Strip(raw_lines[j])) # Lower(Strip(raw_lines[i]))

RECURSIVE Survivors(_)
Survivors(n) ==
    IF n = 0 THEN <<>>
    ELSE IF FirstOccurrence(n) THEN Append(Survivors(n - 1), raw_lines[n])
    ELSE Survivors(n - 1)

ExampleInput == <<LineX, LineXs, LineY, LineX>>

\* C4: at every point of the pre-fetch pass, the lines kept so far are exactly the
\* first occurrences of each lowercase-trimmed key, in their original order, and the
\* lines reported as skipped are exactly the later occurrences; for the input
\* ["X", " x ", "Y", "X"] the pass leaves "X", "Y" and skips lines 2 and 4.
C4_PreFetchKeepsFirstOccurrences ==
    /\ unique_inputs = Survivors(Processed)
    /\ skipped = {i \in 1..Processed : ~FirstOccurrence(i)}
    /\ (file_lines = ExampleInput /\ PreFetchDone)
          => (unique_inputs = <<LineX, LineY>> /\ skipped = {2, 4})

\* the example input has been through the pass, with its two skips
C4_Witness ==
    /\ file_lines = ExampleInput
    /\ PreFetchDone
    /\ unique_inputs = <<LineX, LineY>>
    /\ skipped = {2, 4}

\* ---------------------------------------------------------------- C5
\* C5: after the pre-fetch pass no two lines handed to the worker pool have the
\* same Canonical Reference, and every Canonical Reference of the input is still
\* among the lines handed over (two lines with different references are both kept).
C5_SubmittedReferencesDistinctAndComplete ==
    PreFetchDone =>
        /\ \A a, b \in 1..Len(unique_inputs) :
              normalize_input_line(unique_inputs[a]) = normalize_input_line(unique_inputs[b])
                  => a = b
        /\ \A i \in 1..Len(raw_lines) :
              \E a \in 1..Len(unique_inputs) :
                  normalize_input_line(unique_inputs[a]) = normalize_input_line(raw_lines[i])

\* ---------------------------------------------------------------- helpers of the claims
\* the place in buffered of the record of input line j, and back
ItemPos(j) == CHOOSE k \in 1..Len(buffered) : buffered[k].line = Strip(unique_inputs[j])
ItemOf(k) == CHOOSE j \in 1..Len(unique_inputs) : Strip(unique_inputs[j]) = buffered[k].line

\* every attempt of every resolver call made for item i timed out
TimedOutAlways(i) == w[i].st = "collected" /\ w[i].allto

\* get_stream_url_with_ytdlp gave item j a URL
Resolved(j) == Truthy(w[j].stream) /\ w[j].stream # NotAString

\* the endpoint lines of the output file that carry u
EndpointLines(u) ==
    {n \in 1..Len(out_file) : out_file[n].kind = "url" /\ out_file[n].url = u}

\* the record at k is a duplicate for the post-fetch pass: its endpoint is the
\* special entry's, or an earlier emitted record has its endpoint or identity key
DuplicateAt(k) ==
    \/ (Truthy(special_url) /\ buffered[k].stream_url = special_url)
    \/ \E m \in emitted :
          /\ m < k
          /\ \/ buffered[m].stream_url = buffered[k].stream_url
             \/ (Truthy(KeyNorm(buffered[k])) /\ KeyNorm(buffered[m]) = KeyNorm(buffered[k]))

\* ---------------------------------------------------------------- C1
\* C1 as claimed: the run never stops before completion, and when the resolver calls
\* of one item all timed out, the endpoint of every other item whose resolution
\* succeeded is on an endpoint line of the completed playlist.
C1_OthersAllEmitted ==
    /\ (pc = "done" \/ ENABLED Next)
    /\ pc = "done" =>
          \A i, j \in 1..Len(w) :
              (i # j /\ TimedOutAlways(i) /\ Resolved(j))
                  => EndpointLines(w[j].rec.stream_url) # {}

\* C1, amended: the run never stops before completion, and when the resolver calls
\* of one item all timed out, every other item whose resolution succeeded has an
\* entry of its own in the completed playlist unless the post-fetch pass skipped it
\* as a duplicate.
C1_FailureContained ==
    /\ (pc = "done" \/ ENABLED Next)
    /\ pc = "done" =>
          \A i, j \in 1..Len(w) :
              (i # j /\ TimedOutAlways(i) /\ Resolved(j))
                  => (ItemPos(j) \in emitted \/ DuplicateAt(ItemPos(j)))

\* a completed run in which one item only ever timed out and another was emitted
C1_Witness ==
    /\ pc = "done"
    /\ \E i, j \in 1..Len(w) :
          i # j /\ TimedOutAlways(i) /\ Resolved(j) /\ ItemPos(j) \in emitted

\* ---------------------------------------------------------------- C2
\* C2: in the completed playlist the record entries are in the order of the
\* (pre-fetch deduplicated) input lines, whatever the order of completion.
C2_EmissionFollowsInputOrder ==
    pc = "done" =>
        \A k1, k2 \in emitted : k1 < k2 => ItemOf(k1) < ItemOf(k2)

\* ---------------------------------------------------------------- C3
SharedEndpoints ==
    {buffered[k].stream_url : k \in {a \in 1..Len(buffered) :
        /\ Truthy(buffered[a].stream_url)
        /\ \E b \in 1..Len(buffered) :
              b # a /\ buffered[b].stream_url = buffered[a].stream_url}}

WithEndpoint(u) == {k \in 1..Len(buffered) : buffered[k].stream_url = u}

Least(S) == CHOOSE k \in S : \A m \in S : k <= m

\* C3 as claimed: of the records sharing an endpoint exactly one is emitted, the
\* first in buffer order.
C3_FirstOfSharedEndpointEmitted ==
    pc = "done" =>
        \A u \in SharedEndpoints : WithEndpoint(u) \cap emitted = {Least(WithEndpoint(u))}

\* records with endpoint u whose identity key no earlier emitted record has
FreshKey(u) ==
    {k \in WithEndpoint(u) :
        ~(Truthy(KeyNorm(buffered[k]))
          /\ \E m \in emitted : m < k /\ KeyNorm(buffered[m]) = KeyNorm(buffered[k]))}

\* C3, amended: an endpoint shared by several records is on at most one endpoint
\* line; none of these records is emitted when it is the special entry's endpoint,
\* otherwise the one emitted is the first in buffer order whose identity key was not
\* already emitted (none if there is no such record).
C3_SharedEndpointEmittedOnce ==
    pc = "done" =>
        \A u \in SharedEndpoints :
            /\ Cardinality(EndpointLines(u)) <= 1
            /\ WithEndpoint(u) \cap emitted =
                  IF u = special_url \/ FreshKey(u) = {} THEN {}
                  ELSE {Least(FreshKey(u))}

\* two records share an endpoint, the first was emitted and the second dropped
C3_Witness ==
    /\ pc = "done"
    /\ \E u \in SharedEndpoints :
          /\ u # special_url
          /\ Least(WithEndpoint(u)) \in emitted
          /\ Cardinality(WithEndpoint(u) \cap emitted) = 1
          /\ Cardinality(EndpointLines(u)) = 1

\* ---------------------------------------------------------------- C6
Finished(i) == w[i].st \in {"returned", "collected"}

\* C6: for a line whose stream resolution failed, the record's endpoint is the
\* line's Canonical Reference (and not empty) when fallback_watch is set; otherwise
\* the record has no endpoint and no entry is written for it.
C6_FallbackEndpoint ==
    \A i \in 1..Len(w) :
        (Finished(i) /\ ~Resolved(i)) =>
            IF cfg.fallback_watch
            THEN /\ w[i].rec.stream_url = normalize_input_line(unique_inputs[i])
                 /\ Truthy(w[i].rec.stream_url)
            ELSE /\ w[i].rec.stream_url = None
                 /\ \A k \in emitted : buffered[k].line # Strip(unique_inputs[i])

\* a completed run with fallback in which a failed line got its watch URL as endpoint
\* and was emitted with it
C6_Witness ==
    /\ pc = "done"
    /\ cfg.fallback_watch
    /\ \E i \in 1..Len(w) :
          /\ ~Resolved(i)
          /\ w[i].rec.stream_url = WatchPrefix \o Strip(unique_inputs[i])
          /\ ItemPos(i) \in emitted

\* ---------------------------------------------------------------- C7
Delays(n) == [k \in 1..n |-> Backoff * k]

\* the step of a worker in a resolver call, `a` failed attempts behind it
RetryStepOk(i) ==
    LET a == w[i].attempt
        leaves == w'[i].phase # w[i].phase /\ w'[i].attempt = 0
    IN  /\ a <= cfg.retries
        /\ w[i].sleeps = Delays(a)
        /\ w'[i].calls = w[i].calls + 1
        /\ \/ /\ w'[i].st = "running"
              /\ w'[i].phase = w[i].phase
              /\ a + 1 <= cfg.retries
              /\ w'[i].attempt = a + 1
              /\ w'[i].sleeps = Append(w[i].sleeps, Backoff * (a + 1))
           \/ /\ w'[i].ended = "returned"
              /\ leaves
           \/ /\ w'[i].ended = "raised"
              /\ a = cfg.retries
              /\ leaves

\* C7: every step of a resolver call is one attempt, the attempt number is at most
\* retries + 1, a failure of attempt k <= retries is followed by a delay of
\* backoff * k and a further attempt of the same call, a successful attempt ends the
\* call, and the failure is raised only by attempt retries + 1.
C7_RetryLoop ==
    [][\A i \in 1..Len(w) : (w[i].st = "running" /\ w'[i] # w[i]) => RetryStepOk(i)]_vars

\* the metadata call failed retries + 1 = 3 times and raised
C7_Witness ==
    /\ cfg.retries = 2
    /\ \E i \in 1..Len(w) :
          w[i].phase = "g" /\ w[i].ended = "raised" /\ w[i].calls = 3 /\ w[i].attempt = 0

\* ---------------------------------------------------------------- C8
Aggregated == pc \in {"header", "header_close", "special", "loop", "done"}

Epochs == {buffered[k].expire_epoch : k \in 1..Len(buffered)} \ {NoneEpoch}

\* C8: after fan-in expire_max is the maximum of the expiry epochs of the buffered
\* records (0 included), and absent exactly when no record has one.
C8_ExpireMaxIsMaximum ==
    Aggregated =>
        IF Epochs = {} THEN expire_max = NoneEpoch
        ELSE expire_max \in Epochs /\ \A e \in Epochs : e <= expire_max

\* ---------------------------------------------------------------- C9
RECURSIVE IsPairs(_)
IsPairs(f) ==
    \/ f = <<>>
    \/ /\ Len(f) >= 2
       /\ f[1].kind = "extinf"
       /\ f[2].kind = "url"
       /\ IsPairs(SubSeq(f, 3, Len(f)))

WellFormedFile(f) ==
    /\ Len(f) >= 2
    /\ SubSeq(f, 1, 2) = HeaderLines
    /\ IsPairs(SubSeq(f, 3, Len(f)))

\* C9: from the moment the output file is opened, what the file holds outside the
\* process (what an interruption leaves) is the header followed by complete
\* (descriptor, endpoint) pairs, and once the special entry is written everything
\* written so far is flushed and synced.
C9_DurableValidPrefix ==
    /\ pc \in {"header_close", "special", "loop", "done"} => WellFormedFile(out_file)
    /\ pc \in {"loop", "done"} => (out_buf = <<>> /\ out_synced = Len(out_file))

\* ---------------------------------------------------------------- C10
ManifestLike ==
    {k \in 1..Len(buffered) :
        Truthy(buffered[k].stream_url) /\ is_manifest_url(buffered[k].stream_url)}

Written == out_file \o out_buf

\* C10: the special entry's endpoint is the endpoint of the first buffered record
\* with a manifest-like endpoint, else the Canonical Reference of the first input
\* line, else absent; the line after the special descriptor is that endpoint, and
\* there is no such line when it is absent.
C10_SpecialEndpointPriority ==
    pc \in {"loop", "done"} =>
        /\ special_url =
              IF ManifestLike # {} THEN buffered[Least(ManifestLike)].stream_url
              ELSE IF raw_lines # <<>> THEN normalize_input_line(raw_lines[1])
              ELSE None
        /\ Written[3] = SpecialExtinf(expire_max, now)
        /\ IF special_url = None THEN (Len(Written) = 3 \/ Written[4].kind # "url")
           ELSE Written[4] = UrlLine(special_url)

\* the special entry took the endpoint of a manifest-like record that is not the
\* first of the buffer
C10_Witness ==
    /\ pc = "loop"
    /\ ManifestLike # {}
    /\ Least(ManifestLike) > 1
    /\ Truthy(buffered[1].stream_url)
    /\ special_url = buffered[Least(ManifestLike)].stream_url
    /\ Written[4] = UrlLine(special_url)

\* ---------------------------------------------------------------- C11
\* the lines of the entries of the emitted records among the first n of the buffer
RECURSIVE EntryLines(_)
EntryLines(n) ==
    IF n = 0 THEN <<>>
    ELSE EntryLines(n - 1)
            \o (IF n \in emitted
                THEN <<EntryExtinf(buffered[n]), UrlLine(buffered[n].stream_url)>>
                ELSE <<>>)

SpecialDescriptors ==
    {n \in 1..Len(out_file) : out_file[n].kind = "extinf" /\ out_file[n].id = <<"info">>}

\* C11: the file of a completed run is the header, then the special entry once (its
\* descriptor, and its endpoint line if it has an endpoint), also when no record is
\* emitted, then for each record that has an endpoint and is no duplicate, in buffer
\* order, its descriptor line immediately followed by its endpoint line.
C11_FixedOutputOrder ==
    pc = "done" =>
        /\ out_buf = <<>>
        /\ out_file = HeaderLines
                        \o <<SpecialExtinf(expire_max, now)>>
                        \o (IF Truthy(special_url) THEN <<UrlLine(special_url)>> ELSE <<>>)
                        \o EntryLines(Len(buffered))
        /\ SpecialDescriptors = {3}
        /\ emitted = {k \in 1..Len(buffered) :
                          Truthy(buffered[k].stream_url) /\ ~DuplicateAt(k)}

\* a completed run with three records, one of them filtered out and two emitted
\* after the special entry
C11_Witness ==
    /\ pc = "done"
    /\ Len(buffered) = 3
    /\ Cardinality(emitted) = 2
    /\ Len(out_file) = 8
    /\ out_file[3].id = <<"info">>
    /\ out_file[5] = EntryExtinf(buffered[Least(emitted)])

\* ---------------------------------------------------------------- C12
ReturnedWorkers == {i \in 1..Len(w) : w[i].st = "collected"}
RaisedWorkers == {i \in 1..Len(w) : w[i].st = "failed"}

\* C12: before every future has been yielded (returned or raised and caught) nothing
\* is aggregated and nothing is written, the header included; from then on every
\* worker has ended, the buffer holds exactly one record for each worker that
\* returned and none for a worker that raised; and while workers are unfinished the
\* pool goes on, whatever a sibling raised.
C12_CoordinatorWaitsForAllWorkers ==
    /\ pc \in {"load", "dedup", "pool"} =>
          /\ out_buf = <<>> /\ out_file = <<>> /\ out_synced = 0
          /\ expire_max = NoneEpoch /\ special_url = None
          /\ emitted = {} /\ added_keys = {} /\ added_urls = {}
    /\ Aggregated =>
          /\ done_q = <<>>
          /\ ReturnedWorkers \cup RaisedWorkers = 1..Len(w)
          /\ Len(buffered) = Cardinality(ReturnedWorkers)
          /\ \A i \in ReturnedWorkers :
                Cardinality({k \in 1..Len(buffered) : buffered[k] = w[i].rec}) = 1
          /\ \A i \in RaisedWorkers :
                \A k \in 1..Len(buffered) : buffered[k].line # Strip(unique_inputs[i])
    /\ (pc = "pool" /\ ReturnedWorkers \cup RaisedWorkers # 1..Len(w)) =>
          ENABLED (\/ Collect
                   \/ \E i \in 1..Len(w) : WorkerStart(i)
                   \/ \E i \in 1..Len(w) : AttemptRaises(i))

\* a completed run in which one worker raised and a sibling's record was emitted
C12_Witness ==
    /\ pc = "done"
    /\ RaisedWorkers # {}
    /\ \E j \in ReturnedWorkers : ItemPos(j) \in emitted

\* ---------------------------------------------------------------- C13
\* C13 as claimed: for every non-empty line x of the input, normalizing twice gives
\* what normalizing once gives, a line that is no URL gives the watch URL of the
\* fixed host followed by the identifier, and a line that starts with http:// or
\* https:// is returned as it is.
C13_NormalizeReturnsUrlUnchanged ==
    \A n \in 1..Len(file_lines) :
        LET x == file_lines[n] IN
        x # <<>> =>
            /\ normalize_input_line(normalize_input_line(x)) = normalize_input_line(x)
            /\ (Strip(x) # <<>> /\ Strip(x)[1] \notin {"http://", "https://"})
                  => normalize_input_line(x)
                        = <<"https://", "www.youtube.com/watch?v=">> \o Strip(x)
            /\ x[1] \in {"http://", "https://"} => normalize_input_line(x) = x

\* C13, amended: for every non-empty line x of the input, normalizing twice gives
\* what normalizing once gives, a line that is no URL gives the watch URL of the
\* fixed host followed by the trimmed identifier, and a line that starts with
\* http:// or https:// is returned trimmed, with nothing else changed; the endpoint
\* a worker falls back to is this value.
C13_NormalizeIdempotentTrimmed ==
    /\ \A n \in 1..Len(file_lines) :
          LET x == file_lines[n] IN
          x # <<>> =>
              /\ normalize_input_line(normalize_input_line(x)) = normalize_input_line(x)
              /\ (Strip(x) # <<>> /\ Strip(x)[1] \notin {"http://", "https://"})
                    => normalize_input_line(x)
                          = <<"https://", "www.youtube.com/watch?v=">> \o Strip(x)
              /\ x[1] \in {"http://", "https://"} => normalize_input_line(x) = Strip(x)
    /\ \A i \in 1..Len(w) :
          (w[i].st = "returned" /\ cfg.fallback_watch /\ ~Truthy(w[i].stream))
              => w[i].rec.stream_url = normalize_input_line(file_lines[i])

\* a worker fell back to the normalized form of a URL line that ends with a blank
C13_Witness ==
    /\ Len(w) = 1
    /\ w[1].st = "returned"
    /\ ~Truthy(w[1].stream)
    /\ file_lines[1][1] = "https://"
    /\ w[1].rec.stream_url = normalize_input_line(file_lines[1])
    /\ w[1].rec.stream_url # file_lines[1]

\* ---------------------------------------------------------------- C14
\* the relative time in the title of the special entry, between "(" and ")"
RelativeTime ==
    LET title == Written[3].title
    IN  SubSeq(title, Len(Digits(expire_max)) + 3, Len(title) - 1)

\* the non-zero ones of hours, minutes, seconds of a delta, largest unit first
ComponentsOf(delta) ==
    SelectSeq(<<<<delta \div 3600, " hour">>,
                <<(delta % 3600) \div 60, " minute">>,
                <<delta % 60, " second">>>>,
              LAMBDA c : c[1] # 0)

RenderedComponent(c) == Digits(c[1]) \o <<IF c[1] = 1 THEN c[2] ELSE c[2] \o "s">>

RECURSIVE JoinedComponents(_)
JoinedComponents(cs) ==
    IF Len(cs) = 1 THEN RenderedComponent(cs[1])
    ELSE RenderedComponent(cs[1]) \o <<" and ">> \o JoinedComponents(Tail(cs))

\* C14: the relative time written for an expiry delta seconds after the clock is the
\* "expires now" text when delta <= 0, and otherwise the non-zero ones of its hours
\* (delta div 3600), minutes ((delta mod 3600) div 60) and seconds (delta mod 60),
\* in this order, joined by the connective, at least one of them.
C14_RelativeTimeComponents ==
    (pc \in {"loop", "done"} /\ expire_max # NoneEpoch) =>
        LET delta == expire_max - now IN
        IF delta <= 0 THEN RelativeTime = <<"expires now">>
        ELSE /\ ComponentsOf(delta) # <<>>
             /\ RelativeTime = <<"in ">> \o JoinedComponents(ComponentsOf(delta))

\* 3661 seconds to the expiry: 1 hour, 1 minute and 1 second
C14_Witness ==
    /\ pc = "loop"
    /\ expire_max - now = 3661
    /\ RelativeTime = <<"in ", "1", " hour", " and ", "1", " minute", " and ",
                        "1", " second">>

\* ---------------------------------------------------------------- C15
StrategyOrder == <<"g", "fg", "j">>

\* what a strategy gave is a value to return
Yields(gave) == gave # None /\ gave # <<>> /\ gave # <<"<raised>">>

\* get_stream_url_with_ytdlp has returned for worker i
StreamCallOver(i) == w[i].st \in {"returned", "raised"} /\ w[i].tried # <<>>

\* C15: the strategies a worker has been through are the first ones of (a) -g,
\* (b) -f <format> -g, (c) -j, in this order, each but the last having raised after
\* its retries or given no URL; the strategy in progress is the next one; the call
\* returns what the last strategy gave, and returns None only when all three were
\* tried and none gave a URL.
C15_StrategiesInOrder ==
    \A i \in 1..Len(w) :
        LET tried == w[i].tried IN
        /\ Len(tried) <= 3
        /\ \A k \in 1..Len(tried) : tried[k].phase = StrategyOrder[k]
        /\ \A k \in 1..(Len(tried) - 1) : ~Yields(tried[k].gave)
        /\ w[i].st = "running" =>
              /\ w[i].phase \in {"meta", "g"} => tried = <<>>
              /\ w[i].phase \in {"fg", "j"} =>
                    (Len(tried) < 3 /\ w[i].phase = StrategyOrder[Len(tried) + 1]
                     /\ ~Yields(tried[Len(tried)].gave))
        /\ StreamCallOver(i) =>
              LET last == tried[Len(tried)].gave IN
              /\ w[i].stream = IF Yields(last) THEN last ELSE None
              /\ ~Yields(last) => Len(tried) = 3

\* the first strategy raised, the second gave no URL, the third gave the URL returned
C15_Witness ==
    \E i \in 1..Len(w) :
        /\ w[i].st = "returned"
        /\ Len(w[i].tried) = 3
        /\ w[i].tried[1].gave = <<"<raised>">>
        /\ w[i].tried[2].gave = None
        /\ w[i].tried[3].gave = UrlPlain2
        /\ w[i].stream = UrlPlain2

\* ---------------------------------------------------------------- C16
\* identifier, else title, trimmed and lowercased; empty when the record has neither
IdentityKey(r) ==
    Lower(Strip(IF Truthy(r.meta_id) THEN r.meta_id
                ELSE IF Truthy(r.title) THEN r.title ELSE <<>>))

\* an emitted record before k has the endpoint or the non-empty identity key of k
EmittedBefore(k) ==
    \E m \in emitted :
        /\ m < k
        /\ \/ buffered[m].stream_url = buffered[k].stream_url
           \/ /\ IdentityKey(buffered[k]) # <<>>
              /\ IdentityKey(buffered[m]) = IdentityKey(buffered[k])

\* C16: throughout the post-fetch pass, a record the pass has been through that has
\* an endpoint other than the special entry's is emitted exactly when no record
\* emitted before it has its endpoint or its non-empty identity key; no two emitted
\* records share an endpoint or a non-empty identity key; and the seen sets hold the
\* endpoints and the non-empty keys of the emitted records and nothing else.
C16_PostFetchFirstSeenWins ==
    pc \in {"loop", "done"} =>
        /\ \A k \in 1..(bi - 1) :
              (Truthy(buffered[k].stream_url) /\ buffered[k].stream_url # special_url)
                  => (k \in emitted <=> ~EmittedBefore(k))
        /\ \A k1, k2 \in emitted :
              k1 # k2 =>
                  /\ buffered[k1].stream_url # buffered[k2].stream_url
                  /\ \/ IdentityKey(buffered[k1]) = <<>>
                     \/ IdentityKey(buffered[k1]) # IdentityKey(buffered[k2])
        /\ added_urls = {buffered[k].stream_url : k \in emitted}
        /\ added_keys = {IdentityKey(buffered[k]) : k \in emitted} \ {<<>>}

\* a record with an endpoint of its own was dropped because an emitted record before
\* it has its identity key, and left nothing in the seen sets
C16_Witness ==
    /\ pc = "done"
    /\ \E k1, k2 \in 1..Len(buffered) :
          /\ k1 < k2
          /\ k1 \in emitted
          /\ k2 \notin emitted
          /\ Truthy(buffered[k2].stream_url)
          /\ buffered[k2].stream_url # special_url
          /\ buffered[k2].stream_url # buffered[k1].stream_url
          /\ IdentityKey(buffered[k1]) = IdentityKey(buffered[k2])
          /\ buffered[k2].stream_url \notin added_urls

\* ---------------------------------------------------------------- C17
WorkersRunning == {i \in 1..Len(w) : w[i].st = "running"}

\* the life of a future: taken once by a pool thread, run to its end, yielded once
LifeSteps ==
    {<<"pending", "running">>, <<"pending", "returned">>, <<"running", "returned">>,
     <<"running", "raised">>, <<"returned", "collected">>, <<"raised", "failed">>}

WorkerLifeOk(i) ==
    w'[i].st # w[i].st =>
        /\ <<w[i].st, w'[i].st>> \in LifeSteps
        /\ w[i].st = "pending" =>
              /\ Cardinality(WorkersRunning) < cfg.workers
              /\ \A j \in 1..(i - 1) : w[j].st # "pending"

AllEnded == pc # "pool" \/ \A i \in 1..Len(w) : w[i].st \in {"collected", "failed"}

\* C17: at every moment at most `workers` workers are running; a worker is taken
\* only by a free pool thread, oldest pending item first, runs until it returns or
\* raises and is never run again; and every item submitted is run to its end.
C17_PoolBoundAndProgress ==
    /\ [](Cardinality(WorkersRunning) <= cfg.workers)
    /\ [][\A i \in 1..Len(w) : WorkerLifeOk(i)]_vars
    /\ ((pc = "pool") ~> AllEnded)

\* both pool threads are busy and an item waits
C17_Witness ==
    /\ pc = "pool"
    /\ cfg.workers = 2
    /\ Cardinality(WorkersRunning) = 2
    /\ \E i \in 1..Len(w) : w[i].st = "pending"

\* ---------------------------------------------------------------- C18
\* what the coordinator shares: the seen sets, the buffer, the output file
PreFetchState == <<seen_input_lines, unique_inputs, skipped>>
PostFetchState == <<added_keys, added_urls, emitted, expire_max, special_url>>
OutputFile == <<out_buf, out_file, out_synced>>

\* the step is a step of worker i
WorkerStepOf(i) == w[i].st \in {"pending", "running"} /\ w'[i] # w[i]

\* C18: once workers are submitted the pre-fetch seen set holds the key of every
\* input line and never changes; the post-fetch seen sets and the output file change
\* only when every worker has ended; a step of a worker changes nothing but that
\* worker (and completes its future): no seen set, not the buffer, not the output
\* file, no other worker; and the record it returns is built from its own line, the
\* configuration and what the resolver answered.
C18_WorkersLeaveSharedStateAlone ==
    /\ [](pc \notin {"load", "dedup"} =>
            seen_input_lines = {Lower(Strip(raw_lines[k])) : k \in 1..Len(raw_lines)})
    /\ [](\A i \in 1..Len(w) :
            w[i].st \in {"returned", "collected"} =>
                \E meta \in {NoMeta, ParseMeta(MetaA)} :
                    w[i].rec = MakeRecord(Strip(unique_inputs[i]), meta, w[i].stream,
                                          cfg.fallback_watch))
    /\ [][/\ pc \notin {"load", "dedup"} => UNCHANGED PreFetchState
          /\ (PostFetchState' # PostFetchState \/ OutputFile' # OutputFile) =>
                \A i \in 1..Len(w) : w[i].st \in {"collected", "failed"}
          /\ \A i \in 1..Len(w) :
                WorkerStepOf(i) =>
                    /\ UNCHANGED <<PreFetchState, PostFetchState, OutputFile, buffered>>
                    /\ \A j \in 1..Len(w) : j # i => w'[j] = w[j]
                    /\ done_q' \in {done_q, Append(done_q, i)}]_vars

\* a worker is running while a sibling's record is already in the buffer
C18_Witness ==
    /\ pc = "pool"
    /\ buffered # <<>>
    /\ \E i \in 1..Len(w) : w[i].st = "running" /\ w[i].phase = "j"
    /\ seen_input_lines # {}

\* ---------------------------------------------------------------- C19
\* the endpoint lines written so far
WrittenEndpointLines == {n \in 1..Len(Written) : Written[n].kind = "url"}

\* C19: among the endpoint lines written, the special entry's included, no URL
\* occurs twice: no emitted record has the special entry's endpoint, and no two
\* emitted records have the same endpoint.
C19_NoEndpointWrittenTwice ==
    pc \in {"loop", "done"} =>
        /\ \A n1, n2 \in WrittenEndpointLines :
              Written[n1].url = Written[n2].url => n1 = n2
        /\ \A k \in emitted : buffered[k].stream_url # special_url
        /\ \A k1, k2 \in emitted :
              buffered[k1].stream_url = buffered[k2].stream_url => k1 = k2

\* a completed run that dropped a record with the special entry's endpoint and a
\* record with the endpoint of an emitted one
C19_Witness ==
    /\ pc = "done"
    /\ Len(buffered) = 3
    /\ Cardinality(emitted) = 1
    /\ \E k \in 1..Len(buffered) : buffered[k].stream_url = special_url
    /\ \E k1 \in emitted, k2 \in 1..Len(buffered) :
          k1 # k2 /\ buffered[k1].stream_url = buffered[k2].stream_url
    /\ Cardinality(WrittenEndpointLines) = 2

\* ---------------------------------------------------------------- C20
\* the resolver calls a worker may make: three strategies, and the metadata call
\* unless metadata is disabled, each of at most retries + 1 attempts
CallLimit == (IF cfg.no_metadata THEN 3 ELSE 4) * (cfg.retries + 1)

\* C20: a worker never raises and, while it has not returned, can always take a
\* further step of a resolver call; it returns a record for its line; it makes at
\* most 4 * (retries + 1) resolver calls, at most 3 * (retries + 1) and no metadata
\* call when metadata is disabled, and none for an empty line.
C20_WorkerAlwaysReturnsRecord ==
    \A i \in 1..Len(w) :
        /\ w[i].st \notin {"raised", "failed"}
        /\ w[i].st = "running" => ENABLED AttemptTimesOut(i)
        /\ w[i].st = "returned" => w[i].rec.line = Strip(unique_inputs[i])
        /\ w[i].calls <= CallLimit
        /\ cfg.no_metadata => w[i].phase # "meta"
        /\ Strip(unique_inputs[i]) = <<>> => w[i].calls = 0

====
